---- MODULE Spec2Model ----
(***************************************************************************)
(* Food-analysis service: the /analyze route, the tiered failover          *)
(* dispatcher, the local model lifecycle (LocalIntelligenceClient) and the *)
(* throttled, retried and cached search client (SerpAPIWrapper).           *)
(***************************************************************************)
EXTENDS Integers, Sequences, FiniteSets, TLC

(***************************************************************************)
(* Bounds of the model.                                                    *)
(***************************************************************************)
\* number of request slots of the analysis service
NumProcs == 2
\* engine constructions (Llama(...)) followed per behaviour
MaxLoads == 3

Procs == 1..NumProcs
Tiers == {"light", "heavy"}

(***************************************************************************)
(* Local model lifecycle: src/app/core/local_intelligence.py               *)
(***************************************************************************)
\* Python None for a model slot
NoModel == [tier |-> "none", id |-> 0]

\* a slot between `del self.<tier>_model` and `self.<tier>_model = None`:
\* the attribute does not exist and reading it raises AttributeError
Missing == [tier |-> "missing", id |-> 0]

\* a constructed Llama engine; id tells two constructions apart
Handle(t, n) == [tier |-> t, id |-> n]

Models == {NoModel} \cup {Handle(t, n) : t \in Tiers, n \in 1..(MaxLoads + 1)}

\* truthiness of a slot, as in `if self.light_model:`
Loaded(m) == m # NoModel

TargetModelTypeSwapped(deep_search) == IF deep_search THEN "light" ELSE "heavy"

\* target_model_type = "heavy" if deep_search else "light"
TargetModelType(deep_search) == IF deep_search THEN "heavy" ELSE "light"

OtherTier(t) == IF t = "light" THEN "heavy" ELSE "light"

\* the fixed emergency result of analyze_image's except branch
EmergencyResult ==
  [kind |-> "emergency", overall_description |-> "Error in local analysis.",
   items |-> <<"Unidentified">>]

\* what _parse_local_response returns, by whether the braces substring parses
ParsedResult(parses) ==
  IF parses
  THEN [kind |-> "structured", overall_description |-> "parsed", items |-> <<>>]
  ELSE [kind |-> "degraded", overall_description |-> "raw...", items |-> <<>>]

\* result of the cloud path, normalised to the same shape
CloudResult ==
  [kind |-> "cloud", overall_description |-> "cloud", items |-> <<>>]

NoResult == [kind |-> "none", overall_description |-> "", items |-> <<>>]

(***************************************************************************)
(* Route: src/app/routers/food.py                                          *)
(***************************************************************************)
NoResponse == [status |-> 0, detail |-> <<>>, body |-> NoResult]

\* raise HTTPException(status_code=400, detail="File must be an image.")
BadRequest ==
  [status |-> 400, detail |-> <<"File must be an image.">>, body |-> NoResult]

\* file.content_type as the check of line 27 sees it: a string that starts
\* with "image/", another string, or None (the part carries no content type)
ContentTypes == {"image", "other", "none"}

\* `file.content_type.startswith(...)` on None raises AttributeError outside
\* the try block: the exception leaves the route unhandled and the server
\* answers with its own 500
UnhandledError ==
  [status |-> 500, detail |-> <<"Internal Server Error">>, body |-> NoResult]

\* return result
OkResponse(result) == [status |-> 200, detail |-> <<>>, body |-> result]

\* str(e) of an HTTPException: "<status_code>: <detail>"
StrOfHTTPException(status_code, detail) == <<status_code, detail>>

ServerFailureSwallowed(detail) ==
  [status |-> 200, detail |-> detail, body |-> EmergencyResult]

\* except Exception as e: raise HTTPException(status_code=500, detail=str(e))
ServerFailure(detail) ==
  [status |-> 500, detail |-> detail, body |-> NoResult]

VARIABLES
  light_model,   \* self.light_model
  heavy_model,   \* self.heavy_model
  nloads,        \* engines constructed so far
  pc,            \* position of each request
  deep,          \* the request's deep_search flag
  model,         \* analyze_image's local `model`
  response,      \* what the route answered
  localCalls,    \* calls of local_client.analyze_image made for the request
  localFlag,     \* deep_search value passed to analyze_image
  touched,       \* lifecycle steps made for the request
  usedEngine,    \* tier of the engine whose create_chat_completion ran
  slotAtStart,   \* the two slots when analyze_image was called
  slotAtEnd,     \* the two slots when analyze_image returned or raised
  primaryOutcome,\* how the cloud path ended: "none", "ok" or "failed"
  localOutcome,  \* how analyze_image ended: "none", "returned" or "raised"
  inferOutcome,  \* how the try block of analyze_image went: "none", "json",
                 \* "text", "raise" (the engine raised), "absent" (no engine)
  raced          \* a _load_model call began its switch while another call
                 \* was inside its own

localVars == <<light_model, heavy_model, nloads, pc, deep, model, response,
               localCalls, localFlag, touched, usedEngine, slotAtStart,
               slotAtEnd, primaryOutcome, localOutcome, inferOutcome, raced>>

\* history of the request in progress
outcomes == <<primaryOutcome, localOutcome>>

\* history of the engine's use
engineHistory == <<inferOutcome, raced>>

\* the slots as a call of analyze_image found and left them
callSlots == <<slotAtStart, slotAtEnd>>

(***************************************************************************)
(* Search client: src/app/core/search.py                                   *)
(***************************************************************************)
\* concurrent callers of search_client.search_food_info that look up again
\* and again
NumCallers == 2
\* concurrent callers of one lookup each that are followed to their end when
\* the client makes no retry; NumCallers of them are followed when it retries
NumLiveCallers == 3
\* last tick of the clock followed
MaxTime == 8
\* ticks that may pass between the stamp of _throttle and client.get
MaxLatency == 1
\* last tick up to which the clock runs freely while lookups are followed to
\* their end; after it the clock advances to end the sleeps in progress
LiveTime == 2

\* settings tried: <<SERPAPI_MIN_INTERVAL (in ticks), SERPAPI_MAX_RETRIES,
\* SERPAPI_BACKOFF_FACTOR>>
SettingsTried ==
  {<<1, 2, 2>>, <<2, 1, 2>>, <<2, 2, 1>>, <<0, 1, 2>>, <<-1, -1, 0>>}

\* @alru_cache(maxsize=128)
CacheMaxSize == 128

Max(a, b) == IF a >= b THEN a ELSE b

Callers == 1..Max(NumCallers, NumLiveCallers)
\* the callers that look up again and again
SearchCallers == 1..NumCallers
Queries == {"apple", "pizza", "salad"}

\* the queries a caller may ask. Callers and queries are interchangeable: the
\* first NumCallers callers ask either of two queries, a further caller asks
\* the second of them or one of its own
Asked(c) == IF c <= NumCallers THEN {"apple", "pizza"} ELSE {"pizza", "salad"}

\* cache slot states: no entry, and an entry whose task has not finished
Absent == [kind |-> "absent", error |-> "", q |-> "", by |-> 0]
Pending(c) == [kind |-> "pending", error |-> "", q |-> "", by |-> c]

\* return {"error": "API Key missing"}
KeyMissing == [kind |-> "error", error |-> "API Key missing", q |-> "", by |-> 0]

\* return {"error": str(e)}
ErrorResult(e) == [kind |-> "error", error |-> e, q |-> "", by |-> 0]

\* the projection {"snippets": [...], "knowledge_graph": {...}} of the payload
Results(query) == [kind |-> "results", error |-> "", q |-> query, by |-> 0]

NoLookup == [kind |-> "none", error |-> "", q |-> "", by |-> 0]

\* outcomes of client.get(...) followed by raise_for_status() and json()
Responses == {"200", "429", "500", "transport", "malformed"}

VARIABLES
  api_key,          \* truthiness of self.api_key
  min_interval,     \* self.min_interval
  max_retries,      \* self.max_retries
  backoff_factor,   \* self.backoff_factor
  lock,             \* holder of self._lock, 0 when free (Lock._locked)
  waiters,          \* Lock._waiters: the callers whose acquire() is queued
  fut,              \* the future of each queued acquire(): "none" (not
                    \* queued), "pending", "result" (woken by a release),
                    \* "cancelled" (cancelled while pending), "result_cancel"
                    \* (its task was cancelled after the future got its result)
  last_request_ts,  \* self._last_request_ts
  now,              \* time.monotonic()
  cacheVal,         \* alru_cache: entry of each key
  cacheOrder,       \* alru_cache: keys, least recently used first
  spc,              \* position of each caller
  query,            \* the caller's query
  task,             \* the caller whose call created the task awaited
  attempt,          \* loop variable `attempt`
  backoff,          \* local `backoff`
  wakeAt,           \* end of the caller's current asyncio.sleep
  result,           \* what the lookup returned
  startVal,         \* cache entry of the query when the lookup began
  nAttempts,        \* outbound client.get calls of the lookup
  gateAcq,          \* acquisitions of self._lock by the lookup
  stamps,           \* assignments to _last_request_ts by the lookup
  slept,            \* backoff delays slept by the lookup, in order
  all429,           \* every response of the lookup so far was a 429
  prevAttemptTs,    \* time of the latest outbound attempt, -1 if none
  minGap            \* smallest time between consecutive outbound attempts,
                    \* saturating at min_interval

searchVars == <<api_key, min_interval, max_retries, backoff_factor, lock,
                waiters, fut, last_request_ts, now, cacheVal, cacheOrder, spc, query, task,
                attempt, backoff, wakeAt, result, startVal, nAttempts, gateAcq,
                stamps, slept, all429, prevAttemptTs, minGap>>

(***************************************************************************)
(* Output normalisation (_parse_local_response) and the cache's key order  *)
(***************************************************************************)
\* pieces of text a raw output is made of
MaxTokens == 5
\* length of the long filler piece
FillerLen == 100
\* keys asked beyond the capacity of the cache
ExtraKeys == 1

\* content[:200]
DescriptionLimit == 200

VARIABLES
  tokens,      \* the pieces of the raw text given to _parse_local_response
  parsedOut,   \* what _parse_local_response returned for it
  lruKeys,     \* keys of a cache of maxsize entries, least recently used first
  recency,     \* every key asked so far, least recently asked first
  lastOp,      \* how the latest lookup went: "none", "hit" or "miss"
  lastKey,     \* the key of the latest lookup
  wasRecent,   \* the key was among the maxsize keys asked most recently
  seenBefore   \* the key had been asked before

parseVars == <<tokens, parsedOut>>
lruVars == <<lruKeys, recency, lastOp, lastKey, wasRecent, seenBefore>>
pureVars == <<parseVars, lruVars>>

vars == <<localVars, searchVars, pureVars>>

(***************************************************************************)
(* Analysis service: operations                                            *)
(***************************************************************************)
Slot(t) == IF t = "light" THEN light_model ELSE heavy_model

ModelForAnyEngine(deep_search) ==
  IF deep_search
  THEN (IF Loaded(heavy_model) THEN heavy_model ELSE light_model)
  ELSE (IF Loaded(light_model) THEN light_model ELSE heavy_model)

\* model = self.heavy_model if deep_search else self.light_model
ModelFor(deep_search) == IF deep_search THEN heavy_model ELSE light_model

InitLocal ==
  /\ light_model = NoModel
  /\ heavy_model = NoModel
  /\ nloads = 0
  /\ pc = [p \in Procs |-> "idle"]
  /\ deep = [p \in Procs |-> FALSE]
  /\ model = [p \in Procs |-> NoModel]
  /\ response = [p \in Procs |-> NoResponse]
  /\ localCalls = [p \in Procs |-> 0]
  /\ localFlag = [p \in Procs |-> FALSE]
  /\ touched = [p \in Procs |-> {}]
  /\ usedEngine = [p \in Procs |-> "none"]
  /\ slotAtStart = [p \in Procs |-> <<NoModel, NoModel>>]
  /\ slotAtEnd = [p \in Procs |-> <<NoModel, NoModel>>]
  /\ primaryOutcome = [p \in Procs |-> "none"]
  /\ localOutcome = [p \in Procs |-> "none"]
  /\ inferOutcome = [p \in Procs |-> "none"]
  /\ raced = FALSE

\* analyze_food up to its try block: a request arrives, whatever the other
\* requests are doing (the route is a coroutine, with no lock and no queue);
\* the content type is checked outside the try block
Arrive(p) ==
  /\ pc[p] = "idle"
  /\ \E ct \in ContentTypes, d \in BOOLEAN :
       /\ deep' = [deep EXCEPT ![p] = d]
       /\ IF ct = "image"
          THEN /\ pc' = [pc EXCEPT ![p] = "primary"]
               /\ response' = [response EXCEPT ![p] = NoResponse]
          ELSE /\ pc' = [pc EXCEPT ![p] = "done"]
               /\ response' = [response EXCEPT ![p] =
                    IF ct = "none" THEN UnhandledError ELSE BadRequest]
  /\ UNCHANGED <<light_model, heavy_model, nloads, model, localCalls,
                 localFlag, touched, usedEngine, callSlots, outcomes>>
  /\ UNCHANGED <<searchVars, pureVars>>
  /\ UNCHANGED engineHistory

PrimaryOkThenLocal(p) ==
  /\ pc[p] = "primary"
  /\ pc' = [pc EXCEPT ![p] = "ensure"]
  /\ localCalls' = [localCalls EXCEPT ![p] = @ + 1]
  /\ localFlag' = [localFlag EXCEPT ![p] = deep[p]]
  /\ primaryOutcome' = [primaryOutcome EXCEPT ![p] = "ok"]
  /\ UNCHANGED <<light_model, heavy_model, nloads, deep, model, response,
                 touched, usedEngine, callSlots, localOutcome>>
  /\ UNCHANGED <<searchVars, pureVars>>
  /\ UNCHANGED engineHistory

\* dispatcher, primary attempt succeeds: its result is returned
PrimaryOk(p) ==
  /\ pc[p] = "primary"
  /\ pc' = [pc EXCEPT ![p] = "done"]
  /\ response' = [response EXCEPT ![p] = OkResponse(CloudResult)]
  /\ UNCHANGED <<light_model, heavy_model, nloads, deep, model, localCalls,
                 localFlag, touched, usedEngine, callSlots>>
  /\ UNCHANGED <<searchVars, pureVars>>
  /\ primaryOutcome' = [primaryOutcome EXCEPT ![p] = "ok"]
  /\ UNCHANGED localOutcome
  /\ UNCHANGED engineHistory

\* dispatcher, primary attempt raises: local_client.analyze_image(image,
\* deep_search=deep_search) is called
PrimaryFail(p) ==
  /\ pc[p] = "primary"
  /\ pc' = [pc EXCEPT ![p] = "ensure"]
  /\ localCalls' = [localCalls EXCEPT ![p] = @ + 1]
  /\ localFlag' = [localFlag EXCEPT ![p] = deep[p]]
  /\ slotAtStart' = [slotAtStart EXCEPT ![p] = <<light_model, heavy_model>>]
  /\ UNCHANGED <<light_model, heavy_model, nloads, deep, model, response,
                 touched, usedEngine, slotAtEnd>>
  /\ UNCHANGED <<searchVars, pureVars>>
  /\ primaryOutcome' = [primaryOutcome EXCEPT ![p] = "failed"]
  /\ UNCHANGED localOutcome
  /\ UNCHANGED engineHistory

\* positions of a request from its call of analyze_image to the answer
InLocalCall ==
  {"ensure", "unload", "resolve", "construct", "read", "infer", "local_raised"}

\* the calls of analyze_image are made one at a time, which is what the design
\* assumes of the callers of the lifecycle manager: the dispatcher calls it
\* when no other request is inside its own call (analyze_image and
\* _load_model are plain functions with no suspension point)
PrimaryFailInTurn(p) ==
  /\ \A q \in Procs : pc[q] \notin InLocalCall
  /\ PrimaryFail(p)

LoadCheckAlwaysReloads(p) ==
  /\ pc[p] = "ensure"
  /\ LET t == TargetModelType(localFlag[p]) IN
       /\ touched' = [touched EXCEPT ![p] = @ \cup {<<"ensure", t>>}]
       /\ pc' = [pc EXCEPT ![p] = "unload"]
       /\ raced' = (raced \/ \E q \in Procs \ {p} :
                                 pc[q] \in {"unload", "resolve", "construct"})
  /\ UNCHANGED inferOutcome
  /\ UNCHANGED <<light_model, heavy_model, nloads, deep, model, response,
                 localCalls, localFlag, usedEngine, callSlots>>
  /\ UNCHANGED <<searchVars, pureVars>>
  /\ UNCHANGED outcomes

\* _load_model: `if self.<tier>_model: return`
LoadCheck(p) ==
  /\ pc[p] = "ensure"
  /\ LET t == TargetModelType(localFlag[p]) IN
       /\ Slot(t) # Missing
       /\ touched' = [touched EXCEPT ![p] = @ \cup {<<"ensure", t>>}]
       /\ pc' = [pc EXCEPT ![p] = IF Loaded(Slot(t)) THEN "read" ELSE "unload"]
       /\ raced' = (raced \/ (~Loaded(Slot(t)) /\ \E q \in Procs \ {p} :
                      pc[q] \in {"unload", "unload_del", "unassign", "resolve",
                                "construct"}))
  /\ UNCHANGED inferOutcome
  /\ UNCHANGED <<light_model, heavy_model, nloads, deep, model, response,
                 localCalls, localFlag, usedEngine, callSlots>>
  /\ UNCHANGED <<searchVars, pureVars>>
  /\ UNCHANGED outcomes

UnloadSkipped(p) ==
  /\ pc[p] = "unload"
  /\ pc' = [pc EXCEPT ![p] = "resolve"]
  /\ UNCHANGED <<light_model, heavy_model, touched, nloads, deep, model,
                 response, localCalls, localFlag, usedEngine, callSlots>>
  /\ UNCHANGED outcomes
  /\ UNCHANGED <<searchVars, pureVars>>
  /\ UNCHANGED engineHistory

\* _load_model: unload the other tier if it is loaded
Unload(p) ==
  /\ pc[p] = "unload"
  /\ LET o == OtherTier(TargetModelType(localFlag[p])) IN
       IF Loaded(Slot(o))
       THEN /\ light_model' = IF o = "light" THEN NoModel ELSE light_model
            /\ heavy_model' = IF o = "heavy" THEN NoModel ELSE heavy_model
            /\ touched' = [touched EXCEPT ![p] = @ \cup {<<"release", o>>}]
       ELSE UNCHANGED <<light_model, heavy_model, touched>>
  /\ pc' = [pc EXCEPT ![p] = "resolve"]
  /\ UNCHANGED <<nloads, deep, model, response, localCalls, localFlag,
                 usedEngine, callSlots>>
  /\ UNCHANGED <<searchVars, pureVars>>
  /\ UNCHANGED outcomes
  /\ UNCHANGED engineHistory

\* _get_model_path returns the artifact's path
ResolveOk(p) ==
  /\ pc[p] = "resolve"
  /\ touched' = [touched EXCEPT
                   ![p] = @ \cup {<<"resolve", TargetModelType(localFlag[p])>>}]
  /\ pc' = [pc EXCEPT ![p] = "construct"]
  /\ UNCHANGED <<light_model, heavy_model, nloads, deep, model, response,
                 localCalls, localFlag, usedEngine, callSlots>>
  /\ UNCHANGED <<searchVars, pureVars>>
  /\ UNCHANGED outcomes
  /\ UNCHANGED engineHistory

\* _get_model_path logs and re-raises a download failure
ResolveFail(p) ==
  /\ pc[p] = "resolve"
  /\ touched' = [touched EXCEPT
                   ![p] = @ \cup {<<"resolve", TargetModelType(localFlag[p])>>}]
  /\ pc' = [pc EXCEPT ![p] = "local_raised"]
  /\ UNCHANGED <<light_model, heavy_model, nloads, deep, model, response,
                 localCalls, localFlag, usedEngine, slotAtStart>>
  /\ UNCHANGED <<searchVars, pureVars>>
  /\ localOutcome' = [localOutcome EXCEPT ![p] = "raised"]
  /\ UNCHANGED primaryOutcome
  /\ UNCHANGED engineHistory
  /\ slotAtEnd' = [slotAtEnd EXCEPT ![p] = <<light_model, heavy_model>>]

\* self.<tier>_model = Llama(...)
ConstructOk(p) ==
  /\ pc[p] = "construct"
  /\ nloads < MaxLoads
  /\ LET t == TargetModelType(localFlag[p]) IN
       /\ light_model' = IF t = "light" THEN Handle(t, nloads + 1) ELSE light_model
       /\ heavy_model' = IF t = "heavy" THEN Handle(t, nloads + 1) ELSE heavy_model
       /\ touched' = [touched EXCEPT ![p] = @ \cup {<<"construct", t>>}]
  /\ nloads' = nloads + 1
  /\ pc' = [pc EXCEPT ![p] = "read"]
  /\ UNCHANGED <<deep, model, response, localCalls, localFlag, usedEngine,
                 callSlots>>
  /\ UNCHANGED <<searchVars, pureVars>>
  /\ UNCHANGED outcomes
  /\ UNCHANGED engineHistory

ConstructFailPartial(p) ==
  /\ pc[p] = "construct"
  /\ nloads < MaxLoads
  /\ LET t == TargetModelType(localFlag[p]) IN
       /\ touched' = [touched EXCEPT ![p] = @ \cup {<<"construct", t>>}]
       /\ nloads' = nloads + 1
       /\ IF t = "light"
          THEN light_model' = Handle(t, nloads + 1) /\ UNCHANGED heavy_model
          ELSE heavy_model' = Handle(t, nloads + 1) /\ UNCHANGED light_model
  /\ pc' = [pc EXCEPT ![p] = "local_raised"]
  /\ UNCHANGED <<deep, model, response,
                 localCalls, localFlag, usedEngine, slotAtStart>>
  /\ UNCHANGED <<searchVars, pureVars>>
  /\ localOutcome' = [localOutcome EXCEPT ![p] = "raised"]
  /\ UNCHANGED primaryOutcome
  /\ UNCHANGED engineHistory
  /\ slotAtEnd' = [slotAtEnd EXCEPT ![p] = <<light_model', heavy_model'>>]

\* the chat handler or Llama(...) raises: nothing is assigned
ConstructFail(p) ==
  /\ pc[p] = "construct"
  /\ touched' = [touched EXCEPT
                   ![p] = @ \cup {<<"construct", TargetModelType(localFlag[p])>>}]
  /\ pc' = [pc EXCEPT ![p] = "local_raised"]
  /\ UNCHANGED <<light_model, heavy_model, nloads, deep, model, response,
                 localCalls, localFlag, usedEngine, slotAtStart>>
  /\ UNCHANGED <<searchVars, pureVars>>
  /\ localOutcome' = [localOutcome EXCEPT ![p] = "raised"]
  /\ UNCHANGED primaryOutcome
  /\ UNCHANGED engineHistory
  /\ slotAtEnd' = [slotAtEnd EXCEPT ![p] = <<light_model, heavy_model>>]

\* analyze_image reads the slot of its tier after _load_model returned
ReadModel(p) ==
  /\ pc[p] = "read"
  /\ ModelFor(localFlag[p]) # Missing
  /\ model' = [model EXCEPT ![p] = ModelFor(localFlag[p])]
  /\ touched' = [touched EXCEPT
                   ![p] = @ \cup {<<"read", TargetModelType(localFlag[p])>>}]
  /\ pc' = [pc EXCEPT ![p] = "infer"]
  /\ UNCHANGED <<light_model, heavy_model, nloads, deep, response, localCalls,
                 localFlag, usedEngine, callSlots>>
  /\ UNCHANGED <<searchVars, pureVars>>
  /\ UNCHANGED outcomes
  /\ UNCHANGED engineHistory

InferPropagates(p) ==
  /\ pc[p] = "infer"
  /\ IF ~Loaded(model[p])
     THEN /\ response' = [response EXCEPT ![p] = OkResponse(EmergencyResult)]
          /\ inferOutcome' = [inferOutcome EXCEPT ![p] = "absent"]
          /\ pc' = [pc EXCEPT ![p] = "done"]
          /\ localOutcome' = [localOutcome EXCEPT ![p] = "returned"]
          /\ UNCHANGED <<touched, usedEngine>>
     ELSE /\ touched' = [touched EXCEPT ![p] = @ \cup {<<"infer", model[p].tier>>}]
          /\ usedEngine' = [usedEngine EXCEPT ![p] = model[p].tier]
          /\ \E out \in {"json", "text", "raise"} :
               /\ inferOutcome' = [inferOutcome EXCEPT ![p] = out]
               /\ IF out = "raise"
                  THEN /\ pc' = [pc EXCEPT ![p] = "local_raised"]
                       /\ localOutcome' = [localOutcome EXCEPT ![p] = "raised"]
                       /\ UNCHANGED response
                  ELSE /\ pc' = [pc EXCEPT ![p] = "done"]
                       /\ localOutcome' = [localOutcome EXCEPT ![p] = "returned"]
                       /\ response' = [response EXCEPT
                            ![p] = OkResponse(ParsedResult(out = "json"))]
  /\ UNCHANGED <<light_model, heavy_model, nloads, deep, model, localCalls,
                 localFlag, slotAtStart>>
  /\ UNCHANGED <<searchVars, pureVars>>
  /\ UNCHANGED primaryOutcome
  /\ UNCHANGED raced
  /\ slotAtEnd' = [slotAtEnd EXCEPT ![p] = <<light_model, heavy_model>>]

\* analyze_image's try block: create_chat_completion, then
\* _parse_local_response; any exception gives the emergency result. The
\* dispatcher returns the value and the route answers with it.
Infer(p) ==
  /\ pc[p] = "infer"
  /\ IF ~Loaded(model[p])
     THEN /\ response' = [response EXCEPT ![p] = OkResponse(EmergencyResult)]
          /\ inferOutcome' = [inferOutcome EXCEPT ![p] = "absent"]
          /\ UNCHANGED <<touched, usedEngine>>
     ELSE /\ touched' = [touched EXCEPT ![p] = @ \cup {<<"infer", model[p].tier>>}]
          /\ usedEngine' = [usedEngine EXCEPT ![p] = model[p].tier]
          /\ \E out \in {"json", "text", "raise"} :
               /\ inferOutcome' = [inferOutcome EXCEPT ![p] = out]
               /\ response' = [response EXCEPT
                    ![p] = OkResponse(IF out = "raise" THEN EmergencyResult
                                      ELSE ParsedResult(out = "json"))]
  /\ pc' = [pc EXCEPT ![p] = "done"]
  /\ UNCHANGED <<light_model, heavy_model, nloads, deep, model, localCalls,
                 localFlag, slotAtStart>>
  /\ UNCHANGED <<searchVars, pureVars>>
  /\ localOutcome' = [localOutcome EXCEPT ![p] = "returned"]
  /\ UNCHANGED primaryOutcome
  /\ UNCHANGED raced
  /\ slotAtEnd' = [slotAtEnd EXCEPT ![p] = <<light_model, heavy_model>>]

\* _load_model's unload step run by a thread, the check
\* `if self.<other>_model:` (lines 41, 69)
UnloadCheck(p) ==
  /\ pc[p] = "unload"
  /\ LET o == OtherTier(TargetModelType(localFlag[p])) IN
       /\ Slot(o) # Missing
       /\ pc' = [pc EXCEPT ![p] = IF Loaded(Slot(o)) THEN "unload_del"
                                                    ELSE "resolve"]
  /\ UNCHANGED <<light_model, heavy_model, touched>>
  /\ UNCHANGED <<nloads, deep, model, response, localCalls, localFlag,
                 usedEngine, callSlots>>
  /\ UNCHANGED <<searchVars, pureVars>>
  /\ UNCHANGED outcomes
  /\ UNCHANGED engineHistory

UnloadDelSkipped(p) ==
  /\ pc[p] = "unload_del"
  /\ Slot(OtherTier(TargetModelType(localFlag[p]))) # Missing
  /\ pc' = [pc EXCEPT ![p] = "resolve"]
  /\ UNCHANGED <<light_model, heavy_model, touched>>
  /\ UNCHANGED <<nloads, deep, model, response, localCalls, localFlag,
                 usedEngine, callSlots>>
  /\ UNCHANGED <<searchVars, pureVars>>
  /\ UNCHANGED outcomes
  /\ UNCHANGED engineHistory

\* `del self.<other>_model` (lines 43, 71), a statement of its own after the
\* check and the logger call: the attribute is deleted whatever it holds by
\* now, an engine or the None another thread has assigned since the check
UnloadDel(p) ==
  /\ pc[p] = "unload_del"
  /\ LET o == OtherTier(TargetModelType(localFlag[p])) IN
       /\ Slot(o) # Missing
       /\ light_model' = IF o = "light" THEN Missing ELSE light_model
       /\ heavy_model' = IF o = "heavy" THEN Missing ELSE heavy_model
       /\ touched' = [touched EXCEPT ![p] = @ \cup {<<"release", o>>}]
  /\ pc' = [pc EXCEPT ![p] = "unassign"]
  /\ UNCHANGED <<nloads, deep, model, response, localCalls, localFlag,
                 usedEngine, callSlots>>
  /\ UNCHANGED <<searchVars, pureVars>>
  /\ UNCHANGED outcomes
  /\ UNCHANGED engineHistory

\* `self.<other>_model = None` (lines 44, 72)
UnloadAssign(p) ==
  /\ pc[p] = "unassign"
  /\ LET o == OtherTier(TargetModelType(localFlag[p])) IN
       /\ light_model' = IF o = "light" THEN NoModel ELSE light_model
       /\ heavy_model' = IF o = "heavy" THEN NoModel ELSE heavy_model
  /\ pc' = [pc EXCEPT ![p] = "resolve"]
  /\ UNCHANGED <<nloads, deep, model, response, localCalls, localFlag,
                 touched, usedEngine, callSlots>>
  /\ UNCHANGED <<searchVars, pureVars>>
  /\ UNCHANGED outcomes
  /\ UNCHANGED engineHistory

\* a thread reads or deletes a slot another thread has deleted and not yet
\* reassigned: AttributeError out of _load_model (its two checks and its
\* `del`) or out of analyze_image's read of the slot, which is outside its
\* try block
AttributeRaises(p) ==
  /\ LET t == TargetModelType(localFlag[p]) IN
       \/ pc[p] \in {"ensure", "read"} /\ Slot(t) = Missing
       \/ pc[p] \in {"unload", "unload_del"} /\ Slot(OtherTier(t)) = Missing
  /\ touched' = [touched EXCEPT ![p] =
       IF pc[p] = "read"
       THEN @ \cup {<<"read", TargetModelType(localFlag[p])>>} ELSE @]
  /\ pc' = [pc EXCEPT ![p] = "local_raised"]
  /\ localOutcome' = [localOutcome EXCEPT ![p] = "raised"]
  /\ UNCHANGED <<light_model, heavy_model, nloads, deep, model, response,
                 localCalls, localFlag, usedEngine, slotAtStart>>
  /\ UNCHANGED <<searchVars, pureVars>>
  /\ UNCHANGED primaryOutcome
  /\ UNCHANGED engineHistory
  /\ slotAtEnd' = [slotAtEnd EXCEPT ![p] = <<light_model, heavy_model>>]

\* dispatcher: the fallback raised too
AllSystemsFailed == [status_code |-> 500, detail |-> "All AI systems failed"]

\* the dispatcher raises its terminal error; the route's except clause
\* catches it and raises HTTPException(500, detail=str(e))
AllFailed(p) ==
  /\ pc[p] = "local_raised"
  /\ response' = [response EXCEPT ![p] =
       ServerFailure(StrOfHTTPException(AllSystemsFailed.status_code,
                                        AllSystemsFailed.detail))]
  /\ pc' = [pc EXCEPT ![p] = "done"]
  /\ UNCHANGED <<light_model, heavy_model, nloads, deep, model, localCalls,
                 localFlag, touched, usedEngine, callSlots>>
  /\ UNCHANGED <<searchVars, pureVars>>
  /\ UNCHANGED outcomes
  /\ UNCHANGED engineHistory

\* the response has been sent; the request's frame is dropped
Finish(p) ==
  /\ pc[p] = "done"
  /\ pc' = [pc EXCEPT ![p] = "idle"]
  /\ deep' = [deep EXCEPT ![p] = FALSE]
  /\ model' = [model EXCEPT ![p] = NoModel]
  /\ response' = [response EXCEPT ![p] = NoResponse]
  /\ localCalls' = [localCalls EXCEPT ![p] = 0]
  /\ localFlag' = [localFlag EXCEPT ![p] = FALSE]
  /\ touched' = [touched EXCEPT ![p] = {}]
  /\ usedEngine' = [usedEngine EXCEPT ![p] = "none"]
  /\ slotAtStart' = [slotAtStart EXCEPT ![p] = <<NoModel, NoModel>>]
  /\ slotAtEnd' = [slotAtEnd EXCEPT ![p] = <<NoModel, NoModel>>]
  /\ primaryOutcome' = [primaryOutcome EXCEPT ![p] = "none"]
  /\ localOutcome' = [localOutcome EXCEPT ![p] = "none"]
  /\ inferOutcome' = [inferOutcome EXCEPT ![p] = "none"]
  /\ UNCHANGED <<light_model, heavy_model, nloads, raced>>
  /\ UNCHANGED <<searchVars, pureVars>>

\* requests overlap at the route; their calls of analyze_image are made one
\* at a time
NextLocal ==
  \E p \in Procs :
    \/ Arrive(p) \/ PrimaryOk(p) \/ PrimaryFailInTurn(p)
    \/ LoadCheck(p) \/ Unload(p) \/ ResolveOk(p) \/ ResolveFail(p)
    \/ ConstructOk(p) \/ ConstructFail(p) \/ ReadModel(p) \/ Infer(p)
    \/ AllFailed(p) \/ Finish(p)

\* requests run analyze_image on threads with no lock around the client
NextThreads ==
  \E p \in Procs :
    \/ Arrive(p) \/ PrimaryOk(p) \/ PrimaryFail(p)
    \/ LoadCheck(p) \/ UnloadCheck(p) \/ UnloadDel(p) \/ UnloadAssign(p)
    \/ AttributeRaises(p)
    \/ ResolveOk(p) \/ ResolveFail(p)
    \/ ConstructOk(p) \/ ConstructFail(p) \/ ReadModel(p) \/ Infer(p)
    \/ AllFailed(p) \/ Finish(p)


(***************************************************************************)
(* Search client: operations                                               *)
(***************************************************************************)
\* no gap observed yet
NoGap == MaxTime + 2

\* SerpAPIWrapper.__init__ for given settings
InitClient(key, mi, mr, bf) ==
  /\ api_key = key
  /\ min_interval = Max(0, mi)
  /\ max_retries = Max(0, mr)
  /\ backoff_factor = Max(1, bf)
  /\ lock = 0
  /\ waiters = <<>>
  /\ last_request_ts = 0

\* no lookup has begun; the callers outside A make no lookup ("off")
InitCallersAmong(A) ==
  /\ now = 0
  /\ fut = [c \in Callers |-> "none"]
  /\ cacheVal = [q \in Queries |-> Absent]
  /\ cacheOrder = <<>>
  /\ spc = [c \in Callers |-> IF c \in A THEN "idle" ELSE "off"]
  /\ query = [c \in Callers |-> ""]
  /\ task = [c \in Callers |-> 0]
  /\ attempt = [c \in Callers |-> 0]
  /\ backoff = [c \in Callers |-> 0]
  /\ wakeAt = [c \in Callers |-> 0]
  /\ result = [c \in Callers |-> NoLookup]
  /\ startVal = [c \in Callers |-> Absent]
  /\ nAttempts = [c \in Callers |-> 0]
  /\ gateAcq = [c \in Callers |-> 0]
  /\ stamps = [c \in Callers |-> 0]
  /\ slept = [c \in Callers |-> <<>>]
  /\ all429 = [c \in Callers |-> TRUE]
  /\ prevAttemptTs = -1
  /\ minGap = NoGap

InitCallers == InitCallersAmong(Callers)

InitSearch ==
  /\ \E key \in BOOLEAN, st \in SettingsTried :
       InitClient(key, st[1], st[2], st[3])
  /\ InitCallers


Min(a, b) == IF a <= b THEN a ELSE b

InCache(q) == cacheVal[q].kind # "absent"

\* OrderedDict.move_to_end(key)
MoveToEnd(order, q) == SelectSeq(order, LAMBDA x : x # q) \o <<q>>

LruInsertEvictsNewest(order, q) ==
  IF Len(order) + 1 > CacheMaxSize
  THEN SubSeq(order, 1, Len(order) - 1) \o <<q>>
  ELSE order \o <<q>>

\* alru_cache stores a new key as the most recently used one and, when the
\* cache is then over maxsize, drops the least recently used key
LruInsert(order, q) ==
  IF Len(order \o <<q>>) > CacheMaxSize
  THEN Tail(order \o <<q>>)
  ELSE order \o <<q>>

\* the key dropped by that store, if any
LruEvicted(order, q) ==
  IF Len(order \o <<q>>) > CacheMaxSize
  THEN {Head(order \o <<q>>)}
  ELSE {}

\* variables of the lookup in progress that a step of another kind leaves alone
callerFrame == <<attempt, backoff, wakeAt, nAttempts, gateAcq, stamps, slept,
                 all429>>
clientConfig == <<api_key, min_interval, max_retries, backoff_factor>>
throttleState == <<lock, waiters, fut, last_request_ts>>
attemptLog == <<prevAttemptTs, minGap>>

\* the frame of a call of search_food_info that begins
BeginLookup(c, q) ==
  /\ query' = [query EXCEPT ![c] = q]
  /\ startVal' = [startVal EXCEPT ![c] = cacheVal[q]]
  /\ attempt' = [attempt EXCEPT ![c] = 0]
  /\ backoff' = [backoff EXCEPT ![c] = 0]
  /\ wakeAt' = [wakeAt EXCEPT ![c] = 0]
  /\ nAttempts' = [nAttempts EXCEPT ![c] = 0]
  /\ gateAcq' = [gateAcq EXCEPT ![c] = 0]
  /\ stamps' = [stamps EXCEPT ![c] = 0]
  /\ slept' = [slept EXCEPT ![c] = <<>>]
  /\ all429' = [all429 EXCEPT ![c] = TRUE]

LookupHitRefetched(c) ==
  /\ spc[c] = "idle"
  /\ \E q \in Asked(c) :
       /\ cacheVal[q].kind \in {"results", "error"}
       /\ BeginLookup(c, q)
       /\ cacheOrder' = MoveToEnd(cacheOrder, q)
       /\ cacheVal' = [cacheVal EXCEPT ![q] = Pending(c)]
  /\ task' = [task EXCEPT ![c] = c]
  /\ spc' = [spc EXCEPT ![c] = "body"]
  /\ UNCHANGED <<clientConfig, throttleState, now, result, attemptLog>>
  /\ UNCHANGED <<localVars, pureVars>>

\* alru_cache wrapper, key present and its future done: the value is returned
LookupHit(c) ==
  /\ spc[c] = "idle"
  /\ \E q \in Asked(c) :
       /\ cacheVal[q].kind \in {"results", "error"}
       /\ BeginLookup(c, q)
       /\ cacheOrder' = MoveToEnd(cacheOrder, q)
       /\ result' = [result EXCEPT ![c] = cacheVal[q]]
  /\ spc' = [spc EXCEPT ![c] = "returned"]
  /\ UNCHANGED <<clientConfig, throttleState, now, cacheVal, task, attemptLog>>
  /\ UNCHANGED <<localVars, pureVars>>

\* alru_cache wrapper, key present and its future pending: the future is awaited
LookupJoin(c) ==
  /\ spc[c] = "idle"
  /\ \E q \in Asked(c) :
       /\ cacheVal[q].kind = "pending"
       /\ BeginLookup(c, q)
       /\ cacheOrder' = MoveToEnd(cacheOrder, q)
       /\ task' = [task EXCEPT ![c] = cacheVal[q].by]
  /\ spc' = [spc EXCEPT ![c] = "joined"]
  /\ UNCHANGED <<clientConfig, throttleState, now, cacheVal, result, attemptLog>>
  /\ UNCHANGED <<localVars, pureVars>>

\* alru_cache wrapper, key absent: a task running the body is created, its
\* future is stored, and the least recently used key is dropped when the
\* cache is over maxsize
LookupMiss(c) ==
  /\ spc[c] = "idle"
  /\ \E q \in Asked(c) :
       /\ ~InCache(q)
       /\ BeginLookup(c, q)
       /\ cacheOrder' = LruInsert(cacheOrder, q)
       /\ cacheVal' = [k \in DOMAIN cacheVal |->
                         IF k \in LruEvicted(cacheOrder, q) THEN Absent
                         ELSE IF k = q THEN Pending(c) ELSE cacheVal[k]]
  /\ task' = [task EXCEPT ![c] = c]
  /\ spc' = [spc EXCEPT ![c] = "body"]
  /\ UNCHANGED <<clientConfig, throttleState, now, result, attemptLog>>
  /\ UNCHANGED <<localVars, pureVars>>

\* the task of caller c finishes with value res: the future gets the value
\* (the entry keeps it), and c and the callers awaiting the future return it
TaskDone(c, res) ==
  /\ cacheVal' = IF cacheVal[query[c]] = Pending(c)
                 THEN [cacheVal EXCEPT ![query[c]] = res] ELSE cacheVal
  /\ result' = [d \in Callers |->
                  IF d = c \/ (task[d] = c /\ spc[d] = "joined")
                  THEN res ELSE result[d]]
  /\ spc' = [d \in Callers |->
               IF d = c \/ (task[d] = c /\ spc[d] = "joined")
               THEN "returned" ELSE spc[d]]

KeyMissingIgnored == FALSE

\* if not self.api_key
KeyIsMissing == ~api_key

\* search_food_info up to the retry loop: the credential check
BodyStart(c) ==
  /\ spc[c] = "body"
  /\ IF KeyIsMissing
     THEN /\ TaskDone(c, KeyMissing)
          /\ UNCHANGED backoff
     ELSE /\ backoff' = [backoff EXCEPT ![c] = min_interval]
          /\ spc' = [spc EXCEPT ![c] = "throttle"]
          /\ UNCHANGED <<cacheVal, result>>
  /\ UNCHANGED <<clientConfig, throttleState, now, cacheOrder, query, task,
                 attempt, wakeAt, startVal, nAttempts, gateAcq, stamps, slept,
                 all429, attemptLog>>
  /\ UNCHANGED <<localVars, pureVars>>

\* Lock._wake_up_first on queue ws with futures f: the first queued future
\* gets its result unless it is done already (woken or cancelled)
WakeUpFirst(ws, f) ==
  IF ws # <<>> /\ f[Head(ws)] = "pending"
  THEN [f EXCEPT ![Head(ws)] = "result"]
  ELSE f

\* Lock.release, called when `async with self._lock` is left, with queue ws
\* and futures f: the lock is unlocked and the first waiter is woken
Release(ws, f) ==
  /\ lock' = 0
  /\ waiters' = ws
  /\ fut' = WakeUpFirst(ws, f)

\* the queue without caller c (`self._waiters.remove(fut)`)
Unqueued(c) == SelectSeq(waiters, LAMBDA x : x # c)

\* _throttle stamps _last_request_ts (line 25) and the lock is released, an
\* httpx.AsyncClient is constructed (line 53) and client.get(...) is called
\* (line 54). The coroutine does not suspend between the stamp and the call,
\* so no other caller runs in between, but the clock does: the attempt is
\* made up to MaxLatency ticks after the stamp
StampAndSend(c) ==
  /\ last_request_ts' = now
  /\ stamps' = [stamps EXCEPT ![c] = @ + 1]
  /\ nAttempts' = [nAttempts EXCEPT ![c] = @ + 1]
  /\ \E latency \in 0..MaxLatency :
       /\ latency > 0 => now < MaxTime
       /\ now' = now + latency
       /\ prevAttemptTs' = now + latency
       /\ minGap' = IF prevAttemptTs >= 0
                    THEN Min(minGap,
                             Min(now + latency - prevAttemptTs, min_interval))
                    ELSE minGap
  /\ spc' = [spc EXCEPT ![c] = "in_flight"]

\* wait = self.min_interval - (now - self._last_request_ts)
Wait == min_interval - (now - last_request_ts)

\* the body of `async with self._lock` once caller c has the lock, the queue
\* being ws with futures f: with wait > 0 the caller sleeps holding the lock
Enter(c, ws, f) ==
  /\ gateAcq' = [gateAcq EXCEPT ![c] = @ + 1]
  /\ IF Wait > 0
     THEN /\ lock' = c
          /\ waiters' = ws
          /\ fut' = f
          /\ wakeAt' = [wakeAt EXCEPT ![c] = now + Wait]
          /\ spc' = [spc EXCEPT ![c] = "throttle_sleep"]
          /\ UNCHANGED <<last_request_ts, now, stamps, nAttempts, attemptLog>>
     ELSE /\ StampAndSend(c)
          /\ Release(ws, f)
          /\ UNCHANGED wakeAt

\* Lock.acquire takes the lock at once: it is unlocked and every queued
\* future is cancelled
LockIsFree ==
  /\ lock = 0
  /\ \A i \in 1..Len(waiters) : fut[waiters[i]] = "cancelled"

\* _throttle, `async with self._lock`: Lock.acquire is called. The lock is
\* taken at once, or a future is queued and awaited
Acquire(c) ==
  /\ spc[c] = "throttle"
  /\ IF LockIsFree
     THEN Enter(c, waiters, fut)
     ELSE /\ waiters' = Append(waiters, c)
          /\ fut' = [fut EXCEPT ![c] = "pending"]
          /\ spc' = [spc EXCEPT ![c] = "lock_wait"]
          /\ UNCHANGED <<lock, last_request_ts, now, wakeAt, nAttempts,
                         gateAcq, stamps, attemptLog>>
  /\ UNCHANGED <<clientConfig, cacheVal, cacheOrder, query, task, attempt,
                 backoff, result, startVal, slept, all429>>
  /\ UNCHANGED <<localVars, pureVars>>

\* Lock.acquire resumes with the result of its future: the future leaves the
\* queue and the lock is taken
AcquireWoken(c) ==
  /\ spc[c] = "lock_wait"
  /\ fut[c] = "result"
  /\ Enter(c, Unqueued(c), [fut EXCEPT ![c] = "none"])
  /\ UNCHANGED <<clientConfig, cacheVal, cacheOrder, query, task, attempt,
                 backoff, result, startVal, slept, all429>>
  /\ UNCHANGED <<localVars, pureVars>>

\* _throttle: asyncio.sleep(wait) is over
ThrottleWake(c) ==
  /\ spc[c] = "throttle_sleep"
  /\ now >= wakeAt[c]
  /\ StampAndSend(c)
  /\ Release(waiters, fut)
  /\ UNCHANGED <<clientConfig, cacheVal, cacheOrder, query, task, attempt,
                 backoff, wakeAt, result, startVal, gateAcq, slept, all429>>
  /\ UNCHANGED <<localVars, pureVars>>

MayRetryOnceMore(c) == attempt[c] <= max_retries

\* if attempt < self.max_retries
MayRetry(c) == attempt[c] < max_retries

BackoffNotMultiplied(c) == backoff[c]

\* backoff *= self.backoff_factor
NextBackoff(c) == backoff[c] * backoff_factor

RetryableAnyFailure(r) == r \in {"429", "500", "transport"}

\* the outcomes the loop retries: `status_code == 429`
Retryable(r) == r = "429"

\* the response is a 429 and attempt < max_retries: backoff *= backoff_factor,
\* asyncio.sleep(backoff), continue
Respond429Retry(c) ==
  /\ spc[c] = "in_flight"
  /\ MayRetry(c)
  /\ \E r \in Responses :
       /\ Retryable(r)
       /\ all429' = [all429 EXCEPT ![c] = @ /\ r = "429"]
  /\ LET b == NextBackoff(c) IN
       /\ backoff' = [backoff EXCEPT ![c] = b]
       /\ wakeAt' = [wakeAt EXCEPT ![c] = now + b]
       /\ slept' = [slept EXCEPT ![c] = Append(@, b)]
  /\ spc' = [spc EXCEPT ![c] = "backoff_sleep"]
  /\ UNCHANGED <<clientConfig, throttleState, now, cacheVal, cacheOrder, query,
                 task, attempt, result, startVal, nAttempts, gateAcq, stamps,
                 attemptLog>>
  /\ UNCHANGED <<localVars, pureVars>>

OuterExceptHTTPOnly(r) ==
  IF r \in {"429", "500", "transport"}
  THEN ErrorResult(r)
  ELSE [kind |-> "raised", error |-> r, q |-> "", by |-> 0]

\* `except httpx.HTTPError` and `except Exception` of search_food_info: the
\* exception of outcome r is returned as {"error": str(e)}
OuterExcept(r) == ErrorResult(r)

\* any other outcome of the attempt ends the lookup: the payload is projected,
\* or the exception is turned into {"error": str(e)}
RespondFinal(c) ==
  /\ spc[c] = "in_flight"
  /\ \E r \in Responses :
       /\ Retryable(r) => ~MayRetry(c)
       /\ all429' = [all429 EXCEPT ![c] = @ /\ r = "429"]
       /\ TaskDone(c, IF r = "200" THEN Results(query[c]) ELSE OuterExcept(r))
  /\ UNCHANGED <<clientConfig, throttleState, now, cacheOrder, query, task,
                 attempt, backoff, wakeAt, startVal, nAttempts, gateAcq, stamps,
                 slept, attemptLog>>
  /\ UNCHANGED <<localVars, pureVars>>

\* asyncio.sleep(backoff) is over: the loop goes to its next attempt
BackoffWake(c) ==
  /\ spc[c] = "backoff_sleep"
  /\ now >= wakeAt[c]
  /\ attempt' = [attempt EXCEPT ![c] = @ + 1]
  /\ spc' = [spc EXCEPT ![c] = "throttle"]
  /\ UNCHANGED <<clientConfig, throttleState, now, cacheVal, cacheOrder, query,
                 task, backoff, wakeAt, result, startVal, nAttempts, gateAcq,
                 stamps, slept, all429, attemptLog>>
  /\ UNCHANGED <<localVars, pureVars>>

\* the caller has its result; its frame is dropped and it may look up again
NextLookup(c) ==
  /\ spc[c] = "returned"
  /\ spc' = [spc EXCEPT ![c] = "idle"]
  /\ query' = [query EXCEPT ![c] = ""]
  /\ task' = [task EXCEPT ![c] = 0]
  /\ result' = [result EXCEPT ![c] = NoLookup]
  /\ startVal' = [startVal EXCEPT ![c] = Absent]
  /\ attempt' = [attempt EXCEPT ![c] = 0]
  /\ backoff' = [backoff EXCEPT ![c] = 0]
  /\ wakeAt' = [wakeAt EXCEPT ![c] = 0]
  /\ nAttempts' = [nAttempts EXCEPT ![c] = 0]
  /\ gateAcq' = [gateAcq EXCEPT ![c] = 0]
  /\ stamps' = [stamps EXCEPT ![c] = 0]
  /\ slept' = [slept EXCEPT ![c] = <<>>]
  /\ all429' = [all429 EXCEPT ![c] = TRUE]
  /\ UNCHANGED <<clientConfig, throttleState, now, cacheVal, cacheOrder,
                 attemptLog>>
  /\ UNCHANGED <<localVars, pureVars>>

\* the monotonic clock advances
Tick ==
  /\ now < MaxTime
  /\ now' = now + 1
  /\ UNCHANGED <<clientConfig, throttleState, cacheVal, cacheOrder, spc, query,
                 task, callerFrame, result, startVal, attemptLog>>
  /\ UNCHANGED <<localVars, pureVars>>

\* some caller is inside an asyncio.sleep that is not over
Sleeping ==
  \E c \in Callers :
    spc[c] \in {"throttle_sleep", "backoff_sleep"} /\ now < wakeAt[c]

\* the monotonic clock advances, whatever the callers are doing; it is
\* followed running freely up to LiveTime and from then on to the end of the
\* sleeps in progress
Elapse ==
  /\ now < LiveTime \/ Sleeping
  /\ now' = now + 1
  /\ UNCHANGED <<clientConfig, throttleState, cacheVal, cacheOrder, spc, query,
                 task, callerFrame, result, startVal, attemptLog>>
  /\ UNCHANGED <<localVars, pureVars>>

\* the task of caller c is pending outside Lock.acquire: it has been created
\* and has not run its first step, it sleeps in the gate (line 24), awaits
\* client.get (line 54) or sleeps a backoff (lines 59, 69)
Suspended(c) ==
  \/ spc[c] = "body"
  \/ spc[c] \in {"throttle_sleep", "in_flight", "backoff_sleep"}

\* the task of caller c ends cancelled: alru_cache drops the key of the
\* cancelled future and the callers awaiting it are cancelled
TaskCancelled(c) ==
  /\ cacheVal' = [cacheVal EXCEPT ![query[c]] = Absent]
  /\ cacheOrder' = SelectSeq(cacheOrder, LAMBDA x : x # query[c])
  /\ spc' = [d \in Callers |->
               IF d = c \/ (task[d] = c /\ spc[d] = "joined")
               THEN "cancelled" ELSE spc[d]]

LookupCancelledKeepsLock(c) ==
  /\ Suspended(c)
  /\ TaskCancelled(c)
  /\ UNCHANGED <<clientConfig, throttleState, now, query, task, callerFrame,
                 result, startVal, attemptLog>>
  /\ UNCHANGED <<localVars, pureVars>>

\* the task is cancelled where it is pending: before its first step the body
\* is never entered; later CancelledError is raised at the await,
\* `async with self._lock` releases the lock if the task holds it,
\* the exception passes the except clauses (it is no Exception) and nothing
\* is stamped
LookupCancelled(c) ==
  /\ Suspended(c)
  /\ IF lock = c THEN Release(waiters, fut) ELSE UNCHANGED <<lock, waiters, fut>>
  /\ TaskCancelled(c)
  /\ UNCHANGED <<clientConfig, last_request_ts, now, query, task, callerFrame,
                 result, startVal, attemptLog>>
  /\ UNCHANGED <<localVars, pureVars>>

\* task.cancel() on a caller inside Lock.acquire (line 20): a pending future
\* is cancelled; a future that has its result stays as it is and the task is
\* marked to be cancelled. The future stays in the queue until the task runs
WaiterCancel(c) ==
  /\ spc[c] = "lock_wait"
  /\ fut[c] \in {"pending", "result"}
  /\ fut' = [fut EXCEPT ![c] = IF @ = "pending" THEN "cancelled"
                                ELSE "result_cancel"]
  /\ UNCHANGED <<clientConfig, lock, waiters, last_request_ts, now, cacheVal,
                 cacheOrder, spc, query, task, callerFrame, result, startVal,
                 attemptLog>>
  /\ UNCHANGED <<localVars, pureVars>>

WaiterCancelledWakesNobody(c) ==
  /\ spc[c] = "lock_wait"
  /\ fut[c] \in {"cancelled", "result_cancel"}
  /\ waiters' = Unqueued(c)
  /\ fut' = [fut EXCEPT ![c] = "none"]
  /\ TaskCancelled(c)
  /\ UNCHANGED <<clientConfig, lock, last_request_ts, now, query, task,
                 callerFrame, result, startVal, attemptLog>>
  /\ UNCHANGED <<localVars, pureVars>>

\* the cancelled task runs: CancelledError is raised at `await fut` in
\* Lock.acquire, the future leaves the queue and, when the lock is unlocked,
\* the first waiter left is woken; the lock is not taken
WaiterCancelled(c) ==
  /\ spc[c] = "lock_wait"
  /\ fut[c] \in {"cancelled", "result_cancel"}
  /\ waiters' = Unqueued(c)
  /\ fut' = IF lock = 0
            THEN WakeUpFirst(Unqueued(c), [fut EXCEPT ![c] = "none"])
            ELSE [fut EXCEPT ![c] = "none"]
  /\ TaskCancelled(c)
  /\ UNCHANGED <<clientConfig, lock, last_request_ts, now, query, task,
                 callerFrame, result, startVal, attemptLog>>
  /\ UNCHANGED <<localVars, pureVars>>

\* a caller that awaits the future of another caller's task is cancelled:
\* the wrapper awaits the future shielded, so the caller gets CancelledError
\* and the task and the cache entry are left as they are
JoinerCancelled(c) ==
  /\ spc[c] = "joined"
  /\ spc' = [spc EXCEPT ![c] = "cancelled"]
  /\ UNCHANGED <<clientConfig, throttleState, now, cacheVal, cacheOrder, query,
                 task, callerFrame, result, startVal, attemptLog>>
  /\ UNCHANGED <<localVars, pureVars>>

\* one lookup per caller, which may be cancelled wherever it is pending
NextOneLookup ==
  \/ Elapse
  \/ \E c \in Callers :
       \/ LookupHit(c) \/ LookupJoin(c) \/ LookupMiss(c) \/ BodyStart(c)
       \/ Acquire(c) \/ AcquireWoken(c) \/ ThrottleWake(c)
       \/ LookupCancelled(c) \/ WaiterCancel(c) \/ WaiterCancelled(c)
       \/ JoinerCancelled(c)
       \/ Respond429Retry(c) \/ RespondFinal(c) \/ BackoffWake(c)

\* a step of the task of caller c, or of the response it awaits
TaskStep(c) ==
  \/ BodyStart(c) \/ Acquire(c) \/ AcquireWoken(c) \/ WaiterCancelled(c)
  \/ ThrottleWake(c) \/ Respond429Retry(c) \/ RespondFinal(c)
  \/ BackoffWake(c)

\* the event loop resumes every task that is ready, timers fire once their
\* time has come, the clock advances, and every request is answered or times
\* out (timeout=10.0)
FairLookups ==
  /\ WF_vars(Elapse)
  /\ \A c \in Callers : WF_vars(TaskStep(c))

NextSearch ==
  \/ Tick
  \/ \E c \in SearchCallers :
       \/ LookupHit(c) \/ LookupJoin(c) \/ LookupMiss(c) \/ BodyStart(c)
       \/ Acquire(c) \/ AcquireWoken(c) \/ ThrottleWake(c)
       \/ Respond429Retry(c) \/ RespondFinal(c) \/ BackoffWake(c)
       \/ NextLookup(c)

(***************************************************************************)
(* Output normalisation: operations                                        *)
(***************************************************************************)
\* the pieces: braces, a comma, a member "a":1, a key "b": that wants a
\* value, one other character, and a run of FillerLen other characters
Pieces == {"{", "}", ",", "M", "K", "x", "F"}

\* the characters of a piece
PieceChars(t) ==
  CASE t = "M" -> <<"\"", "a", "\"", ":", "1">>
    [] t = "K" -> <<"\"", "b", "\"", ":">>
    [] t = "F" -> [i \in 1..FillerLen |-> "x"]
    [] OTHER -> <<t>>

\* the raw texts tried: up to MaxTokens pieces
Texts == UNION {[1..n -> Pieces] : n \in 0..MaxTokens}

RECURSIVE Chars(_)
\* the text as the string of its characters
Chars(toks) ==
  IF toks = <<>> THEN <<>> ELSE PieceChars(Head(toks)) \o Chars(Tail(toks))

\* positions (from 1) of a character in a string
Positions(s, ch) == {i \in 1..Len(s) : s[i] = ch}

SetMin(S) == CHOOSE x \in S : \A y \in S : x <= y
SetMax(S) == CHOOSE x \in S : \A y \in S : x >= y

\* str.find: index from 0 of the first occurrence, -1 if none
Find(s, ch) ==
  IF Positions(s, ch) = {} THEN -1 ELSE SetMin(Positions(s, ch)) - 1

RFindFromStart(s, ch) ==
  IF Positions(s, ch) = {} THEN -1 ELSE SetMin(Positions(s, ch)) - 1

\* str.rfind: index from 0 of the last occurrence, -1 if none
RFind(s, ch) ==
  IF Positions(s, ch) = {} THEN -1 ELSE SetMax(Positions(s, ch)) - 1

\* s[a:b] for indices that are not negative
Slice(s, a, b) == SubSeq(s, a + 1, Min(b, Len(s)))

\* the characters of s from position i on begin with lit
StartsWith(s, i, lit) ==
  /\ i + Len(lit) - 1 <= Len(s)
  /\ SubSeq(s, i, i + Len(lit) - 1) = lit

\* a dict with the keys "a" (to 1) and "b" (to a dict) both missing
EmptyObject == [a |-> FALSE, b |-> <<>>]

LoadsFailed == [ok |-> FALSE, val |-> EmptyObject, next |-> 0]

RECURSIVE LoadsObject(_, _)
RECURSIVE LoadsMembers(_, _, _)
\* json: after a member, a comma and the next member or the closing brace
LoadsAfterMember(s, i, acc) ==
  IF i > Len(s) THEN LoadsFailed
  ELSE IF s[i] = "," THEN LoadsMembers(s, i + 1, acc)
  ELSE IF s[i] = "}" THEN [ok |-> TRUE, val |-> acc, next |-> i + 1]
  ELSE LoadsFailed

\* json: a member at position i; a repeated key keeps its last value
LoadsMembers(s, i, acc) ==
  IF StartsWith(s, i, PieceChars("M"))
  THEN LoadsAfterMember(s, i + Len(PieceChars("M")), [acc EXCEPT !.a = TRUE])
  ELSE IF StartsWith(s, i, PieceChars("K"))
  THEN LET v == LoadsObject(s, i + Len(PieceChars("K"))) IN
         IF v.ok
         THEN LoadsAfterMember(s, v.next, [acc EXCEPT !.b = <<v.val>>])
         ELSE LoadsFailed
  ELSE LoadsFailed

\* json: an object at position i
LoadsObject(s, i) ==
  IF i + 1 > Len(s) \/ s[i] # "{" THEN LoadsFailed
  ELSE IF s[i + 1] = "}"
  THEN [ok |-> TRUE, val |-> EmptyObject, next |-> i + 2]
  ELSE LoadsMembers(s, i + 1, EmptyObject)

\* json.loads of a string of the pieces: the object, or ok = FALSE where
\* json.loads raises (no object at the start, or data after it)
JsonLoads(s) ==
  LET r == LoadsObject(s, 1) IN
    IF r.ok /\ r.next = Len(s) + 1 THEN r ELSE LoadsFailed

\* nothing has been returned yet
NotParsed ==
  [kind |-> "none", value |-> <<>>, overall_description |-> <<>>,
   total_calories_estimate |-> "", items |-> <<>>, note |-> ""]

\* return json.loads(json_str)
Structured(val) ==
  [kind |-> "structured", value |-> <<val>>, overall_description |-> <<>>,
   total_calories_estimate |-> "", items |-> <<>>, note |-> ""]

\* the fallback dict of _parse_local_response
Degraded(content) ==
  [kind |-> "degraded", value |-> <<>>,
   overall_description |-> Slice(content, 0, DescriptionLimit) \o <<".", ".", ".">>,
   total_calories_estimate |-> "Estimated", items |-> <<>>,
   note |-> "Raw output returned due to parsing error."]

\* _parse_local_response(content)
ParseLocalResponse(content) ==
  LET start == Find(content, "{")
      end == RFind(content, "}") + 1
  IN IF start # -1 /\ end # -1 /\ JsonLoads(Slice(content, start, end)).ok
     THEN Structured(JsonLoads(Slice(content, start, end)).val)
     ELSE Degraded(content)

\* the normalizer is applied to the raw text
ParseText ==
  /\ parsedOut = NotParsed
  /\ parsedOut' = ParseLocalResponse(Chars(tokens))
  /\ UNCHANGED <<tokens, lruVars, localVars, searchVars>>

NextParse == ParseText

(***************************************************************************)
(* The cache's key order: operations                                       *)
(***************************************************************************)
\* keys are named in the order in which they are first asked
NumKeys == CacheMaxSize + ExtraKeys

\* the keys in a sequence
KeysOf(order) == {order[i] : i \in 1..Len(order)}

\* the latest n elements of a sequence
LastOf(order, n) == SubSeq(order, Max(1, Len(order) - n + 1), Len(order))

\* the keys a caller asks next: the first key, a key never asked, and, once
\* more keys were asked than the cache holds, the key asked longest ago
Asks == {"first", "fresh", "oldest"}

\* the key of an ask, 0 when there is none
KeyAsked(a) ==
  CASE a = "first" -> 1
    [] a = "fresh" -> IF Len(recency) < NumKeys THEN Len(recency) + 1 ELSE 0
    [] a = "oldest" -> IF Len(recency) > CacheMaxSize THEN Head(recency) ELSE 0

\* what is noted of a lookup of key k
NoteLookup(k, op) ==
  /\ lastOp' = op
  /\ lastKey' = k
  /\ wasRecent' = (k \in KeysOf(LastOf(recency, CacheMaxSize)))
  /\ seenBefore' = (k \in KeysOf(recency))
  /\ recency' = SelectSeq(recency, LAMBDA x : x # k) \o <<k>>

\* a lookup of a key that is cached: the wrapper returns its value
CacheHit(k) ==
  /\ k \in 1..NumKeys
  /\ k \in KeysOf(lruKeys)
  /\ lruKeys' = MoveToEnd(lruKeys, k)
  /\ NoteLookup(k, "hit")
  /\ UNCHANGED <<parseVars, localVars, searchVars>>

\* a lookup of a key that is not cached: the body runs and the key is stored
CacheMiss(k) ==
  /\ k \in 1..NumKeys
  /\ k \notin KeysOf(lruKeys)
  /\ lruKeys' = LruInsert(lruKeys, k)
  /\ NoteLookup(k, "miss")
  /\ UNCHANGED <<parseVars, localVars, searchVars>>

NextCache ==
  \E a \in Asks :
    \/ CacheHit(KeyAsked(a))
    \/ CacheMiss(KeyAsked(a))

\* no text given to the normalizer and an empty cache
InitPureQuiet ==
  /\ tokens = <<>>
  /\ parsedOut = NotParsed
  /\ lruKeys = <<>>
  /\ recency = <<>>
  /\ lastOp = "none"
  /\ lastKey = 0
  /\ wasRecent = FALSE
  /\ seenBefore = FALSE

\* the search client as constructed with the shipped defaults, unused
InitSearchQuiet == InitClient(TRUE, 1, 2, 2) /\ InitCallers

\* the service starts with no engine loaded and no request in progress
InitAnalysis ==
  /\ InitLocal
  /\ InitSearchQuiet
  /\ InitPureQuiet

\* the service starts with a search client constructed from the settings
InitLookups ==
  /\ InitLocal
  /\ InitSearch
  /\ InitPureQuiet

\* the analysis service: route, dispatcher and local model lifecycle, with
\* overlapping requests and one call of analyze_image at a time
SpecLocal == InitAnalysis /\ [][NextLocal]_vars

\* the search client under concurrent callers
SpecSearch == InitLookups /\ [][NextSearch]_vars

\* settings of the client whose lookups are followed to their end
SettingsLive == {<<1, 0, 1>>, <<1, 1, 2>>}

\* the callers followed to their end under max_retries mr
LiveCallers(mr) ==
  IF mr = 0 THEN 1..NumLiveCallers ELSE 1..NumCallers

\* the service starts with a search client that has its credential
InitLive ==
  /\ InitLocal
  /\ \E s \in SettingsLive :
       /\ InitClient(TRUE, s[1], s[2], s[3])
       /\ InitCallersAmong(LiveCallers(s[2]))
  /\ InitPureQuiet

\* a raw text is given to the normalizer
InitParse ==
  /\ InitLocal
  /\ InitSearchQuiet
  /\ tokens \in Texts
  /\ parsedOut = NotParsed
  /\ lruKeys = <<>> /\ recency = <<>> /\ lastOp = "none" /\ lastKey = 0
  /\ wasRecent = FALSE /\ seenBefore = FALSE

\* the cache of search_food_info starts empty
InitCache ==
  /\ InitLocal
  /\ InitSearchQuiet
  /\ InitPureQuiet

\* the search client with one lookup per caller under a fair scheduler
SpecLive == InitLive /\ [][NextOneLookup]_vars /\ FairLookups

\* _parse_local_response applied to each raw text
SpecParse == InitParse /\ [][NextParse]_vars

\* the key order of the cache under lookups of more keys than it holds
SpecCache == InitCache /\ [][NextCache]_vars

\* the analysis service with overlapping requests whose calls of
\* analyze_image run on threads, unserialized
SpecThreads == InitAnalysis /\ [][NextThreads]_vars


(***************************************************************************)
(* Properties of the analysis service                                      *)
(***************************************************************************)
\* lifecycle steps that load, read or run an engine (a release does neither)
LoadOrRun == {"ensure", "resolve", "construct", "read", "infer"}

\* C1: when the primary path of a request has failed, analyze_image has been
\* called exactly once, with the request's own deep_search flag, and every
\* engine that is checked, resolved, constructed or run for the request is the
\* one of the matching tier: heavy for deep_search, light otherwise.
C1_FallbackTierMatches ==
  \A p \in Procs :
    primaryOutcome[p] = "failed" =>
      /\ localCalls[p] = 1
      /\ localFlag[p] = deep[p]
      /\ \A e \in touched[p] :
           e[1] \in LoadOrRun => e[2] = (IF deep[p] THEN "heavy" ELSE "light")
      /\ usedEngine[p] \in {"none", IF deep[p] THEN "heavy" ELSE "light"}
      /\ localOutcome[p] = "returned" /\ response[p].body.kind # "emergency"
           => usedEngine[p] = (IF deep[p] THEN "heavy" ELSE "light")

\* a deep request whose primary path failed has switched the slot from light
\* to heavy and has run the heavy engine
C1_Witness ==
  \E p \in Procs :
    /\ pc[p] = "done" /\ primaryOutcome[p] = "failed" /\ deep[p]
    /\ Loaded(slotAtStart[p][1])
    /\ <<"construct", "heavy">> \in touched[p]
    /\ usedEngine[p] = "heavy"

\* C2: when the primary path of a request has succeeded, nothing of the local
\* lifecycle has happened for it: analyze_image was not called, no ensure,
\* resolve, construct, release or inference step was made for it, its answer
\* is the cloud result, and the step in which the primary path succeeds
\* leaves both slots and the count of constructed engines as they were.
C2_PrimarySuccessLeavesLocalAlone ==
  /\ [](\A p \in Procs :
         primaryOutcome[p] = "ok" =>
           /\ localCalls[p] = 0
           /\ touched[p] = {}
           /\ usedEngine[p] = "none"
           /\ localOutcome[p] = "none"
           /\ response[p] = OkResponse(CloudResult))
  /\ [][\A p \in Procs :
         primaryOutcome[p] # "ok" /\ primaryOutcome'[p] = "ok"
           => /\ light_model' = light_model
              /\ heavy_model' = heavy_model
              /\ nloads' = nloads]_vars

\* the primary path of a request succeeded while an engine was resident and
\* another request was inside its call of analyze_image
C2_Witness ==
  \E p, q \in Procs :
    /\ pc[p] = "done" /\ primaryOutcome[p] = "ok"
    /\ pc[q] \in InLocalCall
    /\ Loaded(light_model) \/ Loaded(heavy_model)

\* C3: when the primary path has failed and analyze_image has raised, the
\* request is answered with status 500, the detail carries the text
\* "All AI systems failed", and no result body is returned.
C3_BothFailGives500 ==
  \A p \in Procs :
    pc[p] = "done" /\ primaryOutcome[p] = "failed" /\ localOutcome[p] = "raised"
      => /\ response[p].status = 500
         /\ Len(response[p].detail) = 2
         /\ response[p].detail[2] = "All AI systems failed"
         /\ response[p].body = NoResult

\* both paths have failed for a request that had to construct its engine
C3_Witness ==
  \E p \in Procs :
    /\ pc[p] = "done" /\ primaryOutcome[p] = "failed"
    /\ localOutcome[p] = "raised"
    /\ <<"construct", TargetModelType(deep[p])>> \in touched[p]

\* C4: with the calls of _load_model made one at a time (requests may
\* overlap, their calls of analyze_image do not), the light and the
\* heavy engine are never resident together; while the artifact of a tier is
\* resolved and its engine constructed no engine is resident; and when
\* _load_model has returned for a tier, that tier is loaded and the other
\* tier's slot is empty.
C4_SingleSlot ==
  /\ ~(Loaded(light_model) /\ Loaded(heavy_model))
  /\ \A p \in Procs :
       /\ pc[p] \in {"resolve", "construct"}
            => ~Loaded(light_model) /\ ~Loaded(heavy_model)
       /\ pc[p] = "read"
            => /\ Loaded(IF localFlag[p] THEN heavy_model ELSE light_model)
               /\ ~Loaded(IF localFlag[p] THEN light_model ELSE heavy_model)

\* _load_model("heavy") has returned after releasing the light engine and
\* constructing the heavy one
C4_Witness ==
  \E p \in Procs :
    /\ pc[p] = "read" /\ localFlag[p]
    /\ <<"release", "light">> \in touched[p]
    /\ <<"construct", "heavy">> \in touched[p]
    /\ Loaded(heavy_model)


(***************************************************************************)
(* Properties of the search client                                         *)
(***************************************************************************)
\* C5: the time between any two consecutive outbound attempts of the client
\* (calls of client.get), whichever callers and retries made them, is at
\* least min_interval.
C5_ThrottleSpacing == minGap >= min_interval

\* C6: a lookup that made an outbound attempt and ended in failure leaves no
\* failure in the cache under its query, and a lookup that begins on a query
\* whose last lookup failed on the network makes an outbound attempt.
C6_FailuresNeverCached ==
  /\ \A c \in Callers :
       spc[c] = "returned" /\ nAttempts[c] >= 1 /\ result[c].kind = "error"
         => cacheVal[query[c]].kind # "error"
  /\ \A c \in Callers :
       /\ spc[c] = "returned"
       /\ startVal[c].kind = "error" /\ startVal[c] # KeyMissing
       => nAttempts[c] >= 1

\* C7: a lookup that begins on a query whose successful result is in the
\* cache returns that result, makes no outbound attempt, does not take the
\* throttle lock and does not stamp _last_request_ts.
C7_CacheHit ==
  \A c \in Callers :
    startVal[c].kind = "results" =>
      /\ spc[c] = "returned"
      /\ result[c] = startVal[c]
      /\ result[c] = Results(query[c])
      /\ nAttempts[c] = 0 /\ gateAcq[c] = 0 /\ stamps[c] = 0

\* a second lookup of a query has returned the cached successful result
C7_Witness ==
  \E c \in Callers :
    /\ spc[c] = "returned" /\ startVal[c].kind = "results"
    /\ result[c] = Results(query[c])
    /\ prevAttemptTs >= 0

\* C8: a lookup never makes more than max_retries + 1 outbound attempts, and
\* a lookup all of whose responses were 429 has made exactly max_retries + 1
\* attempts when it returns, and returns an error.
C8_RetryBound ==
  \A c \in Callers :
    /\ nAttempts[c] <= max_retries + 1
    /\ spc[c] = "returned" /\ task[c] = c /\ nAttempts[c] >= 1 /\ all429[c]
         => nAttempts[c] = max_retries + 1 /\ result[c].kind = "error"

\* with max_retries = 2 a lookup has returned after three 429 responses
C8_Witness ==
  \E c \in Callers :
    /\ spc[c] = "returned" /\ task[c] = c /\ all429[c]
    /\ max_retries = 2 /\ nAttempts[c] = 3
    /\ result[c] = ErrorResult("429")

\* C9 as stated: the first backoff delay slept is min_interval and each
\* further delay is the previous one times backoff_factor.
C9_BackoffStartsAtMinInterval ==
  \A c \in Callers :
    /\ Len(slept[c]) >= 1 => slept[c][1] = min_interval
    /\ \A i \in 2..Len(slept[c]) : slept[c][i] = slept[c][i - 1] * backoff_factor

\* C9, amended: the first backoff delay slept is min_interval * backoff_factor
\* and each further delay is the previous one times backoff_factor.
C9_BackoffSchedule ==
  \A c \in Callers :
    /\ Len(slept[c]) >= 1 => slept[c][1] = min_interval * backoff_factor
    /\ \A i \in 2..Len(slept[c]) : slept[c][i] = slept[c][i - 1] * backoff_factor

\* with min_interval = 1, backoff_factor = 2 and max_retries = 2 a lookup
\* has slept two backoff delays and made its third attempt
C9_Witness ==
  \E c \in Callers :
    /\ min_interval = 1 /\ backoff_factor = 2 /\ max_retries = 2
    /\ slept[c] = <<2, 4>>
    /\ nAttempts[c] = 3

\* C10: without an API key every lookup that returns gives the
\* "API Key missing" error, and no lookup sends, takes the throttle lock or
\* stamps _last_request_ts.
C10_MissingKey ==
  ~api_key =>
    /\ \A c \in Callers :
         /\ spc[c] \in {"idle", "body", "joined", "returned"}
         /\ spc[c] = "returned" => result[c] = KeyMissing
         /\ nAttempts[c] = 0 /\ gateAcq[c] = 0 /\ stamps[c] = 0
    /\ lock = 0 /\ last_request_ts = 0 /\ prevAttemptTs = -1

\* without an API key the body of a lookup has run and returned
C10_Witness ==
  \E c \in Callers :
    /\ ~api_key /\ spc[c] = "returned" /\ task[c] = c
    /\ startVal[c] = Absent /\ result[c] = KeyMissing


(***************************************************************************)
(* Properties of the model lifecycle and of analyze_image                  *)
(***************************************************************************)
\* the slot of the tier a request asks for, as it was when its call of
\* analyze_image began
StartSlot(p) == IF localFlag[p] THEN slotAtStart[p][2] ELSE slotAtStart[p][1]

\* the slot of the opposite tier when the call began
StartOtherSlot(p) == IF localFlag[p] THEN slotAtStart[p][1] ELSE slotAtStart[p][2]

\* the slot of the tier a request asks for, as its call of analyze_image left it
EndSlot(p) == IF localFlag[p] THEN slotAtEnd[p][2] ELSE slotAtEnd[p][1]

\* lifecycle steps that change what is resident or fetch an artifact
SwitchSteps == {"resolve", "construct", "release"} \X Tiers

\* C11: when _load_model fails, in resolving the artifact or in constructing
\* the engine, the error propagates out of analyze_image (the request ends
\* with the 500 of the dispatcher's terminal error) and neither the light nor
\* the heavy engine is resident when the call is left, also when the opposite
\* tier was resident before the call.
C11_FailedLoadLeavesSlotsEmpty ==
  \A p \in Procs :
    /\ pc[p] = "local_raised"
         => /\ localOutcome[p] = "raised"
            /\ light_model = NoModel /\ heavy_model = NoModel
            /\ slotAtEnd[p] = <<NoModel, NoModel>>
    /\ pc[p] = "done" /\ localOutcome[p] = "raised"
         => /\ response[p].status = 500
            /\ slotAtEnd[p] = <<NoModel, NoModel>>

\* the construction of the heavy engine failed after the light engine, which
\* was resident when the call began, had been released
C11_Witness ==
  \E p \in Procs :
    /\ pc[p] = "local_raised" /\ localFlag[p]
    /\ Loaded(StartOtherSlot(p))
    /\ <<"release", "light">> \in touched[p]
    /\ <<"construct", "heavy">> \in touched[p]

\* C15: _load_model for the tier that is already resident does nothing: no
\* artifact is resolved, no engine constructed, none released, and both slots
\* hold the handles they held when the call began, until the call is left,
\* so that a repeated request for a tier runs on the engine loaded for the
\* first one.
C15_LoadIsNoOpOnResidentTier ==
  \A p \in Procs :
    (/\ localCalls[p] = 1
     /\ pc[p] \in {"read", "infer", "done"}
     /\ Loaded(StartSlot(p)))
      => /\ touched[p] \cap SwitchSteps = {}
         /\ pc[p] \in {"read", "infer"}
              => <<light_model, heavy_model>> = slotAtStart[p]
         /\ localOutcome[p] # "raised"
         /\ pc[p] = "done"
              => /\ slotAtEnd[p] = slotAtStart[p]
                 /\ usedEngine[p] = TargetModelType(localFlag[p])

\* a request has run inference on an engine that was resident when its call
\* of analyze_image began
C15_Witness ==
  \E p \in Procs :
    /\ pc[p] = "done" /\ localCalls[p] = 1
    /\ Loaded(StartSlot(p))
    /\ <<"infer", TargetModelType(localFlag[p])>> \in touched[p]
    /\ nloads = 1

\* C18: analyze_image raises only when _load_model failed: then no inference
\* was started and the requested tier is not resident when the call is left. Once _load_model has
\* returned the call does not raise, and a failure of the completion call is
\* returned as the emergency result with a normal (200) response.
C18_OnlyLoadFailureRaises ==
  \A p \in Procs :
    /\ localOutcome[p] = "raised"
         => /\ inferOutcome[p] = "none"
            /\ \A t \in Tiers : <<"infer", t>> \notin touched[p]
            /\ <<"resolve", TargetModelType(localFlag[p])>> \in touched[p]
            /\ ~Loaded(EndSlot(p))
    /\ pc[p] \in {"read", "infer"} => localOutcome[p] = "none"
    /\ inferOutcome[p] # "none" => localOutcome[p] = "returned"
    /\ inferOutcome[p] = "raise"
         => /\ response[p] = OkResponse(EmergencyResult)
            /\ primaryOutcome[p] = "failed"

\* the completion call of a loaded engine raised and the request is answered
C18_Witness ==
  \E p \in Procs :
    /\ pc[p] = "done" /\ inferOutcome[p] = "raise"
    /\ <<"infer", TargetModelType(localFlag[p])>> \in touched[p]

\* both engines are resident at once
BothResident == light_model.tier = "light" /\ heavy_model.tier = "heavy"

\* C16: with unserialized concurrent callers of _load_model a state with
\* both engines resident is reachable, and it is reached only when one call
\* began its switch while another call was inside its own: without such an
\* overlap at most one engine is resident.
C16_BothResidentOnlyByRace == BothResident => raced

\* two interleaved loads of opposite tiers have left both engines resident
C16_Witness ==
  /\ BothResident
  /\ raced
  /\ \E p, q \in Procs :
       /\ p # q
       /\ <<"construct", "light">> \in touched[p]
       /\ <<"construct", "heavy">> \in touched[q]

\* C20 as stated: with unserialized concurrent analyses, a caller whose load
\* has returned and whose engine another caller has released does not raise.
C20_ReleasedHandleNeverRaises ==
  \A p \in Procs :
    <<"read", TargetModelType(localFlag[p])>> \in touched[p]
      => localOutcome[p] # "raised"

\* C20, amended: with unserialized concurrent analyses, a caller whose load
\* has returned may read an empty slot because another caller released its
\* engine; that caller runs no inference, does not raise and is answered with
\* the emergency result; a caller whose read falls between the other caller's
\* `del` of the slot and its assignment of None raises instead; and no caller
\* ever runs inference on the engine of the tier it did not ask for.
C20_AbsentHandleGivesEmergency ==
  \A p \in Procs :
    /\ usedEngine[p] \in {"none", TargetModelType(localFlag[p])}
    /\ inferOutcome[p] = "absent"
         => /\ localOutcome[p] = "returned"
            /\ response[p] = OkResponse(EmergencyResult)
            /\ usedEngine[p] = "none"
            /\ \A t \in Tiers : <<"infer", t>> \notin touched[p]
    /\ (/\ <<"read", TargetModelType(localFlag[p])>> \in touched[p]
        /\ localOutcome[p] = "raised")
         => /\ EndSlot(p) = Missing
            /\ inferOutcome[p] = "none"

\* a caller constructed its engine, another caller released it, and the
\* first caller was answered with the emergency result
C20_Witness ==
  \E p, q \in Procs :
    /\ p # q
    /\ pc[p] = "done" /\ inferOutcome[p] = "absent"
    /\ <<"construct", TargetModelType(localFlag[p])>> \in touched[p]
    /\ <<"release", TargetModelType(localFlag[p])>> \in touched[q]


(***************************************************************************)
(* Properties of the search client's failure handling                      *)
(***************************************************************************)
\* positions of a lookup between its first attempt and its return
Retrying ==
  {"backoff_sleep", "throttle", "lock_wait", "throttle_sleep", "in_flight"}

\* C13: an attempt that fails with a transport error or with an error status
\* other than 429 ends the lookup at once, whatever retries remain: the
\* lookup sleeps no backoff and makes no attempt after it, so a lookup is in
\* its loop only while all its responses were 429, and a lookup that
\* returned such a failure made one attempt more than it slept backoffs.
C13_NoRetryOnOtherFailures ==
  \A c \in Callers :
    /\ spc[c] \in Retrying => all429[c]
    /\ (/\ spc[c] = "returned" /\ task[c] = c
        /\ result[c] \in {ErrorResult("500"), ErrorResult("transport")})
         => /\ ~all429[c]
            /\ nAttempts[c] = Len(slept[c]) + 1
            /\ attempt[c] = Len(slept[c])
            /\ attempt[c] <= max_retries

\* the first attempt of a lookup answered 500 and the lookup returned the
\* failure although retries remained
C13_Witness ==
  \E c \in Callers :
    /\ spc[c] = "returned" /\ task[c] = c
    /\ result[c] = ErrorResult("500")
    /\ nAttempts[c] = 1 /\ slept[c] = <<>>
    /\ attempt[c] < max_retries

\* C17: search_food_info never raises to its caller: whatever the outbound
\* attempts answer, the lookup returns a mapping, which is the projection of
\* the payload or an error outcome.
C17_LookupNeverRaises ==
  \A c \in Callers :
    /\ spc[c] \in {"idle", "body", "joined", "returned"} \cup Retrying
    /\ spc[c] = "returned"
         => \/ result[c] = Results(query[c])
            \/ result[c] = KeyMissing
            \/ \E r \in Responses \ {"200"} : result[c] = ErrorResult(r)

\* a lookup whose payload could not be decoded returned an error outcome
C17_Witness ==
  \E c \in Callers :
    /\ spc[c] = "returned" /\ task[c] = c
    /\ result[c] = ErrorResult("malformed")
    /\ nAttempts[c] >= 1


\* positions of a caller whose lookup has begun and has not ended
Begun ==
  {"body", "joined", "backoff_sleep", "throttle", "lock_wait",
   "throttle_sleep", "in_flight"}

\* positions of a caller inside Lock.acquire of `async with self._lock`
AtGate == {"throttle", "lock_wait"}

\* positions of a caller that has the lock or has had it and left the gate
PastGate == {"throttle_sleep", "in_flight"}

\* positions of a caller that makes no lookup, has not begun it or has
\* returned from it
Quiet == {"off", "idle", "returned"}

\* C19, as stated, for callers of one lookup each under a fair scheduler:
\* every lookup that began returns (from some moment on every caller is
\* quiet for good), the throttle lock is never held forever (it is unlocked
\* again and again), a caller waiting on the gate leaves it only by
\* acquiring the lock, and no lookup makes more than max_retries + 1
\* attempts.
C19_EveryLookupReturns ==
  /\ <>[](\A c \in Callers : spc[c] \in Quiet)
  /\ []<>(lock = 0)
  /\ [][\A c \in Callers :
          spc[c] \in AtGate => spc'[c] \in AtGate \cup PastGate]_vars
  /\ [](\A c \in Callers : nAttempts[c] <= Max(max_retries, 0) + 1)

\* C19: for callers of one lookup each under a fair scheduler, every lookup
\* that began ends: it returns unless it is cancelled, and then it ends
\* cancelled (from some moment on no lookup is in progress, for good). The
\* throttle lock is never held forever, also when the holder's sleep is
\* interrupted (it is unlocked again and again). A caller waiting on the
\* gate leaves it only by acquiring the lock or by being cancelled, and none
\* stays there: whenever the lock is unlocked and callers are queued, the
\* first of them has been woken or is about to leave the queue cancelled.
\* No lookup makes more than max_retries + 1 attempts.
C19_LookupsTerminate ==
  /\ <>[](\A c \in Callers : spc[c] \notin Begun)
  /\ []<>(lock = 0)
  /\ [][\A c \in Callers :
          spc[c] \in AtGate
            => spc'[c] \in AtGate \cup PastGate \cup {"cancelled"}]_vars
  /\ [](lock = 0 /\ waiters # <<>>
          => fut[Head(waiters)] \in {"result", "result_cancel", "cancelled"})
  /\ [](\A c \in Callers : nAttempts[c] <= Max(max_retries, 0) + 1)

\* the lock is unlocked, the waiter that was woken has been cancelled before
\* it ran, and another caller is queued behind it, not woken
C19_Witness ==
  \E b, c \in Callers :
    /\ b # c
    /\ lock = 0
    /\ waiters = <<b, c>>
    /\ fut[b] = "result_cancel" /\ fut[c] = "pending"


(***************************************************************************)
(* Properties of the output normalisation and of the cache                 *)
(***************************************************************************)
\* the pieces of the text that are the character ch
PiecesAt(toks, ch) == {i \in 1..Len(toks) : toks[i] = ch}

\* the text has a '{' and a '}' and its last '}' comes after its first '{'
HasBraced(toks) ==
  /\ PiecesAt(toks, "{") # {}
  /\ PiecesAt(toks, "}") # {}
  /\ \E i \in PiecesAt(toks, "{") : \E j \in PiecesAt(toks, "}") : i < j

\* the substring from the first '{' to the last '}', both included
Braced(toks) ==
  LET i == CHOOSE i \in PiecesAt(toks, "{") : \A k \in PiecesAt(toks, "{") : i <= k
      j == CHOOSE j \in PiecesAt(toks, "}") : \A k \in PiecesAt(toks, "}") : j >= k
  IN Chars(SubSeq(toks, i, j))

\* C12: _parse_local_response returns a result for every raw text. When the
\* substring from the first '{' to the last '}' parses, the result is the
\* parsed object; in every other case (no '{', no '}', the last '}' before the
\* first '{', or a substring that does not parse) it is the degraded result:
\* the first 200 characters of the text followed by "...", an empty item list
\* and the note.
C12_NormalizerTotal ==
  parsedOut # NotParsed =>
    LET s == Chars(tokens) IN
      IF HasBraced(tokens) /\ JsonLoads(Braced(tokens)).ok
      THEN parsedOut = Structured(JsonLoads(Braced(tokens)).val)
      ELSE /\ parsedOut.kind = "degraded"
           /\ parsedOut.overall_description =
                [i \in 1..(Min(Len(s), DescriptionLimit) + 3) |->
                   IF i <= Min(Len(s), DescriptionLimit) THEN s[i] ELSE "."]
           /\ parsedOut.items = <<>>
           /\ parsedOut.note = "Raw output returned due to parsing error."

\* a text of more than 200 characters that has a '}' and a '{', every '}'
\* before the first '{', has been cut to 200 characters and "..."
C12_Witness ==
  /\ parsedOut.kind = "degraded"
  /\ Len(Chars(tokens)) > DescriptionLimit
  /\ Len(parsedOut.overall_description) = DescriptionLimit + 3
  /\ PiecesAt(tokens, "{") # {}
  /\ PiecesAt(tokens, "}") # {}
  /\ ~HasBraced(tokens)

\* C14: the cache never holds more than 128 keys and always holds exactly the
\* keys asked most recently, in the order of their latest use: a store into a
\* full cache drops the least recently used key, so a lookup is answered from
\* the cache exactly when its key is among the 128 asked most recently, and a
\* lookup of a dropped key runs the body again.
C14_BoundedLRU ==
  /\ Len(lruKeys) <= CacheMaxSize
  /\ lruKeys = LastOf(recency, CacheMaxSize)
  /\ lastOp = "hit" => wasRecent
  /\ lastOp = "miss" => ~wasRecent

\* a key dropped from the full cache has been asked again and was not
\* answered from the cache, while the key asked just before it is still cached
C14_Witness ==
  /\ lastOp = "miss" /\ seenBefore
  /\ Len(lruKeys) = CacheMaxSize
  /\ Len(recency) > CacheMaxSize
  /\ recency[Len(recency) - 1] \in KeysOf(lruKeys)

====
